---------------------------- MODULE Spec2Model ----------------------------
(* A model of the redeo server engine (src/server.go): the listeners and   *)
(* their accept loops, the per-connection serve loop, command dispatch     *)
(* (Apply), and Close.  The session registry (srv.clients), the statistics *)
(* registry (srv.info), the codec (ParseRequest, Responder) and the error  *)
(* kinds (ClientError, UnknownCommand) live outside server.go; they are    *)
(* modelled from their description and are marked so below.                *)
EXTENDS Naturals, Sequences, FiniteSets

(* ------------------------------ bounds --------------------------------- *)

\* connections accepted in one run
MaxConns == 2
\* requests decoded on the connection of SpecServe
MaxReqs == 3
\* requests decoded in one run of the whole server (Spec), over all connections
MaxLoad == 1
\* calls of Close in one run
MaxCloses == 2
\* calls of Apply without a connection in one run
MaxApplies == 2
\* the clients that connect while the start of the server is examined
StartConns == 1
\* calls of Close while the start of the server is examined
StartCloses == 1

Conns == 1..MaxConns
Listeners == {"tcp", "unix"}

(* --------------------------- errors / codec ---------------------------- *)

\* the nil error
NoErr == [class |-> "nil", msg |-> ""]
\* io.EOF, the end-of-stream condition of ParseRequest
EOF == [class |-> "EOF", msg |-> "EOF"]
\* a decode failure of ParseRequest on a malformed frame
ErrInvalidRequest == [class |-> "decode", msg |-> "invalid request"]
\* a read on a transport this side has closed
ErrClosedConn == [class |-> "decode", msg |-> "use of closed connection"]
\* the read deadline of the connection has elapsed (a net.Error with Timeout())
ErrTimeout == [class |-> "decode", msg |-> "i/o timeout"]
\* UnknownCommand(name): a ClientError
UnknownCommand(name) == [class |-> "client", msg |-> "unknown command"]
\* IsClientError with the type assertion always failing
IsClientError_Never(e) == FALSE
\* IsClientError with every error taken for a ClientError
IsClientError_Always(e) == e.class # "nil"
\* the type assertion err.(ClientError) of serveClient
IsClientError(e) == e.class = "client"

\* no responder (the nil *Responder Apply returns on a failed lookup)
NilRes == [kind |-> "nil", body |-> ""]
\* NewResponder() after the handler wrote body to it
OkRes(body) == [kind |-> "ok", body |-> body]
\* NewResponder() after WriteError(err)
ErrRes(e) == [kind |-> "err", body |-> e.msg]

(* --------------------------- command table ----------------------------- *)

\* strings.ToLower on the names used here
ToLower(s) ==
  CASE s = "PING" -> "ping"
    [] s = "Ping" -> "ping"
    [] s = "ECHO" -> "echo"
    [] s = "Echo" -> "echo"
    [] s = "Quit" -> "quit"
    [] s = "CErr" -> "cerr"
    [] s = "FErr" -> "ferr"
    [] s = "QErr" -> "qerr"
    [] OTHER -> s

\* A handler, by what it does to its responder and session and what it
\* returns: out is what it writes to the responder, quit whether it sets the
\* session's quit flag, err the error it returns.
HPing == [out |-> "PONG", quit |-> FALSE, err |-> NoErr]
HQuit == [out |-> "OK", quit |-> TRUE, err |-> NoErr]
HCErr == [out |-> "PART", quit |-> FALSE, err |-> [class |-> "client", msg |-> "bad argument"]]
HFErr == [out |-> "PART", quit |-> FALSE, err |-> [class |-> "error", msg |-> "backend down"]]
HQErr == [out |-> "", quit |-> TRUE, err |-> [class |-> "client", msg |-> "bye"]]

\* Server.Handle: commands[strings.ToLower(name)] = handler
Handle(cmds, name, handler) ==
  [n \in (DOMAIN cmds) \cup {ToLower(name)} |->
     IF n = ToLower(name) THEN handler ELSE cmds[n]]

\* NewServer: commands = make(map[string]Handler)
NoCommands == [n \in {} |-> HPing]

\* the command table after the application's registrations
Registered ==
  Handle(Handle(Handle(Handle(Handle(NoCommands,
    "PING", HPing), "Quit", HQuit), "CErr", HCErr), "FErr", HFErr), "QErr", HQErr)

\* the names the application registered, as a client spells them
RegisteredNames == {"ping", "quit", "cerr", "ferr", "qerr"}
\* the request names a client sends ("nope" is registered nowhere)
ReqNames == {"ping", "quit", "cerr", "ferr", "qerr", "nope"}

\* the names an application registers handlers under, in the case it likes
HandleNames == {"ping", "PING", "Ping", "echo", "ECHO"}
\* the handlers it registers under them
HandleHandlers == {HPing, HCErr}
\* the names of the requests it hands to Apply itself
ApplyNames == {"ping", "PING", "Ping", "echo", "Echo", "nope"}

\* What one call of ParseRequest can return, as [name, err]: a request of a
\* given name, the end of the stream, or a decode failure.
Frame(name) == [name |-> name, err |-> NoErr]
FrameEOF == [name |-> "", err |-> EOF]
FrameInvalid == [name |-> "", err |-> ErrInvalidRequest]
FrameClosed == [name |-> "", err |-> ErrClosedConn]
FrameTimeout == [name |-> "", err |-> ErrTimeout]
\* every frame a client can send
AllFrames == {FrameEOF, FrameInvalid} \cup {Frame(n) : n \in ReqNames}
\* the frames of clients that only ping, send an unregistered name, and hang up
PlainFrames == {FrameEOF, Frame("ping"), Frame("nope")}

(* ------------------------------- state --------------------------------- *)

VARIABLES
  config,     \* [addr, socket, timeout]: the transports configured, idle timeout set
  env,        \* the surroundings of this run: [frames the clients send, budget of
              \* requests, faults of the host occur, clients that connect,
              \* calls of Close, the history of accepts that is recorded]
  fsys,       \* the host: [port, sock, sock0], see Host
  commands,   \* srv.commands: the handler registered under each name
  direct,     \* what the last call of Apply without a connection returned
  lasPc,      \* position of ListenAndServe: "tcp", "tcpGo", "unix", "unixGo", "wait",
              \* "returned", or "panicked"
  lasErr,     \* what ListenAndServe returned
  srvLis,     \* srv.tcp / srv.unix are not nil
  lis,        \* each listener: "none", "open" or "closed"
  acc,        \* position of each accept loop (Server.serve): "idle" (not started),
              \* "accept", "nil" (started on a nil listener), "closing" (error
              \* sent, deferred Close pending), "done", or "panicked"
  errs,       \* the errs channel (capacity 2)
  closePc,    \* position of the running Close call: "idle" when none runs, "tcp",
              \* "tcpNil", "unix", "unixNil", "clients"
  closeCalls, \* Close calls that have returned
  closeRes,   \* the result err of Close, and the listener errors met (see NoCloseRes)
  nconn,      \* connections accepted so far; the next client id is nconn+1
  nreqs,      \* requests decoded so far, over all connections
  registry,   \* srv.clients: the ids of the registered clients
  info,       \* srv.info: [connections, commands]
  pc,         \* position of each serveClient goroutine
  open,       \* the transport client.conn is open on this side
  deadline,   \* the deadline of client.conn: "none", "armed" or "expired"
  client,     \* the Client: [quit, cmds, last]
  req,        \* the request being served: [idx, name]
  res,        \* the responder Apply returned
  err,        \* the error being handled
  out,        \* the replies written to the transport, in order
  hist        \* what happened on the connection (history, see NoHist)

srvVars == <<config, env, fsys, commands, direct, lasPc, lasErr, srvLis, lis, acc, errs>>
closeVars == <<closePc, closeCalls, closeRes>>
connVars == <<pc, open, deadline, client, req, res, err, out, hist>>
vars == <<config, env, fsys, commands, direct, lasPc, lasErr, srvLis, lis, acc, errs,
          closePc, closeCalls, closeRes, nconn, nreqs, registry, info,
          pc, open, deadline, client, req, res, err, out, hist>>

NoReq == [idx |-> 0, name |-> ""]
NewClient == [quit |-> FALSE, cmds |-> 0, last |-> ""]
\* History of one connection, kept for stating properties only:
\*   inClose  the connection was accepted while a Close call was running
\*            (recorded in the runs that watch it, see env)
\*   decodes  calls of ParseRequest that returned (frames consumed)
\*   misses   calls of Apply with a name that is registered nowhere
\*   failed   the frames whose reply failed to be written
\*   quitBy   the request whose handler set the quit flag (0: none)
\*   why      why the serve loop returned ("" while it runs)
\*   atExit   decodes when the serve loop decided to return
\*   arms     calls of client.conn.SetDeadline
\*   afterRet the connection was accepted after ListenAndServe had returned
\*            (recorded in the runs that watch it, see env)
NoHist == [inClose |-> FALSE, decodes |-> 0, misses |-> 0, failed |-> {},
           quitBy |-> 0, why |-> "", atExit |-> 0, arms |-> 0, afterRet |-> FALSE]

\* The host the server starts on: the TCP port is "free" or "busy"; the socket
\* path holds nothing ("absent"), a socket file ("socket"), a regular file
\* ("file"), a directory ("dir"), or cannot be examined ("unreadable": os.Stat
\* fails with an error other than not-exist); removable tells whether
\* os.RemoveAll can remove what the path holds; sock0 is what the path held
\* before the start.
Host(port, occupant, removable) ==
  [port |-> port, sock |-> occupant, sock0 |-> occupant, removable |-> removable]

\* the hosts a server is started on: the port matters when an address is
\* configured, the socket path when a socket is, removable when the path
\* holds a socket or a file
Hosts(cfg) ==
  LET ports == IF cfg.addr THEN {"free", "busy"} ELSE {"free"}
      paths == IF cfg.socket
               THEN {<<"absent", TRUE>>, <<"socket", TRUE>>, <<"socket", FALSE>>,
                     <<"file", TRUE>>, <<"file", FALSE>>, <<"dir", TRUE>>,
                     <<"unreadable", TRUE>>}
               ELSE {<<"absent", TRUE>>}
  IN {Host(p, o[1], o[2]) : p \in ports, o \in paths}

\* no call of Apply without a connection yet
NoDirect == [name |-> "", res |-> NilRes, err |-> NoErr, calls |-> 0]

\* Close's named result err ("nil": no error), and for stating properties the
\* errors its calls of srv.tcp.Close(), srv.unix.Close() and
\* srv.clients.Clear() returned in the last call
NoCloseRes == [err |-> "nil", tcp |-> "nil", unix |-> "nil", clear |-> "nil"]

Init ==
  /\ config = [addr |-> TRUE, socket |-> TRUE, timeout |-> FALSE]
  /\ fsys = Host("free", "absent", TRUE)
  /\ commands = Registered
  /\ direct = NoDirect
  /\ closeRes = NoCloseRes
  /\ deadline = [c \in Conns |-> "none"]
  /\ env = [frames |-> PlainFrames, budget |-> MaxLoad, faults |-> FALSE,
           clients |-> MaxConns, closes |-> MaxCloses,
           watch |-> {"inClose"}]
  /\ lasPc = "tcp"
  /\ lasErr = "none"
  /\ srvLis = [l \in Listeners |-> FALSE]
  /\ lis = [l \in Listeners |-> "none"]
  /\ acc = [l \in Listeners |-> "idle"]
  /\ errs = <<>>
  /\ closePc = "idle"
  /\ closeCalls = 0
  /\ nconn = 0
  /\ nreqs = 0
  /\ registry = {}
  /\ info = [connections |-> 0, commands |-> 0]
  /\ pc = [c \in Conns |-> "free"]
  /\ open = [c \in Conns |-> FALSE]
  /\ client = [c \in Conns |-> NewClient]
  /\ req = [c \in Conns |-> NoReq]
  /\ res = [c \in Conns |-> NilRes]
  /\ err = [c \in Conns |-> NoErr]
  /\ out = [c \in Conns |-> <<>>]
  /\ hist = [c \in Conns |-> NoHist]


(* ------------------- session registry / statistics --------------------- *)

\* clients.Put(client): insert by id
Put(reg, c) == reg \cup {c}
\* clients.Close(id) on the registry: delete the entry
Remove(reg, c) == reg \ {c}
\* clients.Close(id) on the transports: the removed entry's transport is closed
CloseConn(reg, op, c) == [d \in Conns |-> IF d = c /\ c \in reg THEN FALSE ELSE op[d]]
\* clients.Clear() on the transports: every registered transport is closed
CloseAll(reg, op) == [d \in Conns |-> IF d \in reg THEN FALSE ELSE op[d]]
\* info.onConnect()
onConnect(inf) == [inf EXCEPT !.connections = @ + 1]
\* info.onCommand()
onCommand(inf) == [inf EXCEPT !.commands = @ + 1]
\* client.trackCommand(name)
trackCommand(cl, name) == [cl EXCEPT !.cmds = @ + 1, !.last = name]

\* The process runs: no goroutine has panicked. A panic that no goroutine
\* recovers ends the process, and with it every goroutine.
Running == lasPc # "panicked" /\ \A l \in Listeners : acc[l] # "panicked"

(* --------------------------- ListenAndServe ---------------------------- *)

\* an errs channel with one slot less than there are listeners
ErrsCap_OneShort == Cardinality(Listeners) - 1

\* the capacity of the errs channel: make(chan error, 2)
ErrsCap == 2

\* net.Listen("tcp", srv.Addr()) on host fs: fails when the port is taken
listenTcp(fs) == [ok |-> fs.port = "free"]

\* srv.listenUnix() on host fs: whether it succeeds, the error it returns,
\* whether it panics, and the socket path after.
\* os.Stat fails with an error other than not-exist: stat is nil and
\* stat.IsDir() panics. os.Stat finds something that is not a directory:
\* os.RemoveAll(path), whose error is returned. Then net.Listen("unix", path),
\* which fails when the path still exists.
listenUnix(fs) ==
  LET removes == fs.sock # "absent" /\ fs.sock # "dir"
      left == IF removes THEN "absent" ELSE fs.sock
  IN IF fs.sock = "unreadable"
     THEN [ok |-> FALSE, panics |-> TRUE, err |-> "none", sock |-> fs.sock]
     ELSE IF removes /\ ~fs.removable
     THEN [ok |-> FALSE, panics |-> FALSE, err |-> "remove unix", sock |-> fs.sock]
     ELSE IF left = "absent"
     THEN [ok |-> TRUE, panics |-> FALSE, err |-> "none", sock |-> "socket"]
     ELSE [ok |-> FALSE, panics |-> FALSE, err |-> "listen unix", sock |-> left]

\* if srv.Addr() != "" { srv.tcp, err = net.Listen(...); if err != nil { return } ... }
LasTcp ==
  /\ Running
  /\ lasPc = "tcp"
  /\ IF config.addr /\ listenTcp(fsys).ok
     THEN /\ srvLis' = [srvLis EXCEPT !["tcp"] = TRUE]
          /\ lis' = [lis EXCEPT !["tcp"] = "open"]
     ELSE UNCHANGED <<srvLis, lis>>
  /\ IF ~config.addr THEN lasPc' = "unix" /\ UNCHANGED lasErr
     ELSE IF listenTcp(fsys).ok THEN lasPc' = "tcpGo" /\ UNCHANGED lasErr
     ELSE lasPc' = "returned" /\ lasErr' = "listen tcp"
  /\ UNCHANGED <<config, env, fsys, commands, direct, acc, errs, closeVars, nconn, nreqs,
                 registry, info, connVars>>

\* go srv.serve(errs, lis) with lis the value of the listener field read now:
\* the listener, or nil when a Close call has cleared the field since the
\* listener was stored in it
GoServe(ac, field, l) == [ac EXCEPT ![l] = IF field[l] THEN "accept" ELSE "nil"]

\* go srv.serve(errs, srv.tcp)
LasTcpGo ==
  /\ Running
  /\ lasPc = "tcpGo"
  /\ acc' = GoServe(acc, srvLis, "tcp")
  /\ lasPc' = "unix"
  /\ UNCHANGED <<config, env, fsys, commands, direct, lasErr, srvLis, lis, errs, closeVars,
                 nconn, nreqs, registry, info, connVars>>

\* LasUnix closing the TCP listener when listenUnix fails
LasUnix_ClosesTcp ==
  /\ Running
  /\ lasPc = "unix"
  /\ IF config.socket /\ listenUnix(fsys).ok
     THEN /\ srvLis' = [srvLis EXCEPT !["unix"] = TRUE]
          /\ lis' = [lis EXCEPT !["unix"] = "open"]
     ELSE IF config.socket /\ lis["tcp"] = "open"
          THEN /\ lis' = [lis EXCEPT !["tcp"] = "closed"]
               /\ UNCHANGED srvLis
          ELSE UNCHANGED <<srvLis, lis>>
  /\ fsys' = IF config.socket THEN [fsys EXCEPT !.sock = listenUnix(fsys).sock] ELSE fsys
  /\ IF ~config.socket THEN lasPc' = "wait" /\ UNCHANGED lasErr
     ELSE IF listenUnix(fsys).panics THEN lasPc' = "panicked" /\ UNCHANGED lasErr
     ELSE IF listenUnix(fsys).ok THEN lasPc' = "unixGo" /\ UNCHANGED lasErr
     ELSE lasPc' = "returned" /\ lasErr' = listenUnix(fsys).err
  /\ UNCHANGED <<config, env, commands, direct, acc, errs, closeVars, nconn, nreqs, registry,
                 info, connVars>>

\* if srv.Socket() != "" { srv.unix, err = srv.listenUnix(); if err != nil { return err } ... }
LasUnix ==
  /\ Running
  /\ lasPc = "unix"
  /\ IF config.socket /\ listenUnix(fsys).ok
     THEN /\ srvLis' = [srvLis EXCEPT !["unix"] = TRUE]
          /\ lis' = [lis EXCEPT !["unix"] = "open"]
     ELSE UNCHANGED <<srvLis, lis>>
  /\ fsys' = IF config.socket THEN [fsys EXCEPT !.sock = listenUnix(fsys).sock] ELSE fsys
  /\ IF ~config.socket THEN lasPc' = "wait" /\ UNCHANGED lasErr
     ELSE IF listenUnix(fsys).panics THEN lasPc' = "panicked" /\ UNCHANGED lasErr
     ELSE IF listenUnix(fsys).ok THEN lasPc' = "unixGo" /\ UNCHANGED lasErr
     ELSE lasPc' = "returned" /\ lasErr' = listenUnix(fsys).err
  /\ UNCHANGED <<config, env, commands, direct, acc, errs, closeVars, nconn, nreqs, registry,
                 info, connVars>>

\* go srv.serve(errs, srv.unix)
LasUnixGo ==
  /\ Running
  /\ lasPc = "unixGo"
  /\ acc' = GoServe(acc, srvLis, "unix")
  /\ lasPc' = "wait"
  /\ UNCHANGED <<config, env, fsys, commands, direct, lasErr, srvLis, lis, errs, closeVars,
                 nconn, nreqs, registry, info, connVars>>

\* ListenAndServe returning the error reported last
LasWait_Last ==
  /\ Running
  /\ lasPc = "wait"
  /\ errs # <<>>
  /\ lasPc' = "returned"
  /\ lasErr' = errs[Len(errs)]
  /\ errs' = SubSeq(errs, 1, Len(errs) - 1)
  /\ UNCHANGED <<config, env, fsys, commands, direct, srvLis, lis, acc, closeVars, nconn, nreqs,
                 registry, info, connVars>>

\* return <-errs
LasWait ==
  /\ Running
  /\ lasPc = "wait"
  /\ errs # <<>>
  /\ lasPc' = "returned"
  /\ lasErr' = Head(errs)
  /\ errs' = Tail(errs)
  /\ UNCHANGED <<config, env, fsys, commands, direct, srvLis, lis, acc, closeVars, nconn, nreqs, registry, info, connVars>>

(* ------------------------ Server.serve (accept) ------------------------ *)

\* conn, err := lis.Accept() with err == nil; go srv.serveClient(NewClient(conn))
ServeAccept(l) ==
  /\ Running
  /\ acc[l] = "accept"
  /\ lis[l] = "open"
  /\ nconn < env.clients
  /\ nconn' = nconn + 1
  /\ pc' = [pc EXCEPT ![nconn + 1] = "new"]
  /\ open' = [open EXCEPT ![nconn + 1] = TRUE]
  /\ hist' = [hist EXCEPT
       ![nconn + 1].inClose = ("inClose" \in env.watch /\ closePc # "idle"),
       ![nconn + 1].afterRet = ("afterRet" \in env.watch /\ lasPc = "returned")]
  /\ UNCHANGED <<srvVars, closeVars, nreqs, registry, info, deadline, client, req, res, err, out>>

\* defer lis.Close() in a serve that was started on a nil listener: the call
\* through the nil interface panics, in a goroutine that recovers nothing
ServePanic(l) ==
  /\ Running
  /\ acc[l] = "nil"
  /\ acc' = [acc EXCEPT ![l] = "panicked"]
  /\ UNCHANGED <<config, env, fsys, commands, direct, lasPc, lasErr, srvLis, lis, errs,
                 closeVars, nconn, nreqs, registry, info, connVars>>

\* lis.Close() of listener l in state st on host fs: the unix listener that
\* net.Listen made removes its socket file when it is closed
Unlink(fs, st, l) ==
  IF l = "unix" /\ st = "open" THEN [fs EXCEPT !.sock = "absent"] ELSE fs

\* lis.Accept() fails because the listener was closed: errs <- err; return
ServeAcceptErr(l) ==
  /\ Running
  /\ acc[l] = "accept"
  /\ lis[l] = "closed"
  /\ Len(errs) < ErrsCap
  /\ errs' = Append(errs, "accept " \o l)
  /\ acc' = [acc EXCEPT ![l] = "closing"]
  /\ UNCHANGED <<config, env, fsys, commands, direct, lasPc, lasErr, srvLis, lis, closeVars,
                 nconn, nreqs, registry, info, connVars>>

\* lis.Accept() fails while the listener is open (a fault of the host):
\* errs <- err; return
ServeAcceptFail(l) ==
  /\ Running
  /\ env.faults
  /\ acc[l] = "accept"
  /\ lis[l] = "open"
  /\ Len(errs) < ErrsCap
  /\ errs' = Append(errs, "accept " \o l)
  /\ acc' = [acc EXCEPT ![l] = "closing"]
  /\ UNCHANGED <<config, env, fsys, commands, direct, lasPc, lasErr, srvLis, lis, closeVars,
                 nconn, nreqs, registry, info, connVars>>

\* the deferred lis.Close() of a serve that returns, its error dropped: it
\* closes the listener if it is still open (and removes the socket file of
\* the unix listener)
ServeDeferClose(l) ==
  /\ Running
  /\ acc[l] = "closing"
  /\ acc' = [acc EXCEPT ![l] = "done"]
  /\ lis' = [lis EXCEPT ![l] = "closed"]
  /\ fsys' = Unlink(fsys, lis[l], l)
  /\ UNCHANGED <<config, env, commands, direct, lasPc, lasErr, srvLis, errs, closeVars,
                 nconn, nreqs, registry, info, connVars>>

(* ---------------------------- Server.Close ----------------------------- *)

\* a call of Close begins, at any moment: nothing orders it with ListenAndServe
CloseCall ==
  /\ Running
  /\ closePc = "idle"
  /\ closeCalls < env.closes
  /\ closePc' = "tcp"
  /\ closeRes' = NoCloseRes
  /\ UNCHANGED <<srvVars, closeCalls, nconn, nreqs, registry, info, connVars>>

\* lis.Close() of the listener l in state st: closing a listener that is
\* closed already (by the deferred lis.Close() of its accept loop) is an error
ListenerClose(st, l) == IF st = "closed" THEN "close " \o l ELSE "nil"

\* What srv.clients.Clear() can return: nil, or the error of closing a client
ClearResults == IF env.faults /\ registry # {} THEN {"nil", "close client"} ELSE {"nil"}

\* if srv.tcp != nil { if e := srv.tcp.Close(); e != nil { err = e } ... }:
\* the listener is closed; the field is cleared in a later step
CloseTcp ==
  /\ Running
  /\ closePc = "tcp"
  /\ IF srvLis["tcp"]
     THEN /\ closePc' = "tcpNil"
          /\ lis' = [lis EXCEPT !["tcp"] = "closed"]
          /\ closeRes' = LET e == ListenerClose(lis["tcp"], "tcp")
                         IN [closeRes EXCEPT !.err = IF e # "nil" THEN e ELSE @,
                                             !.tcp = e]
     ELSE /\ closePc' = "unix"
          /\ UNCHANGED <<lis, closeRes>>
  /\ UNCHANGED <<config, env, fsys, commands, direct, lasPc, lasErr, srvLis, acc, errs,
                 closeCalls, nconn, nreqs, registry, info, connVars>>

\* srv.tcp = nil
CloseTcpNil ==
  /\ Running
  /\ closePc = "tcpNil"
  /\ closePc' = "unix"
  /\ srvLis' = [srvLis EXCEPT !["tcp"] = FALSE]
  /\ UNCHANGED <<config, env, fsys, commands, direct, lasPc, lasErr, lis, acc, errs,
                 closeCalls, closeRes, nconn, nreqs, registry, info, connVars>>

\* if srv.unix != nil { if e := srv.unix.Close(); e != nil { err = e } ... }:
\* the listener is closed, which removes its socket file if it was open; the
\* field is cleared in a later step
CloseUnix ==
  /\ Running
  /\ closePc = "unix"
  /\ IF srvLis["unix"]
     THEN /\ closePc' = "unixNil"
          /\ lis' = [lis EXCEPT !["unix"] = "closed"]
          /\ closeRes' = LET e == ListenerClose(lis["unix"], "unix")
                         IN [closeRes EXCEPT !.err = IF e # "nil" THEN e ELSE @,
                                             !.unix = e]
          /\ fsys' = Unlink(fsys, lis["unix"], "unix")
     ELSE /\ closePc' = "clients"
          /\ UNCHANGED <<lis, closeRes, fsys>>
  /\ UNCHANGED <<config, env, commands, direct, lasPc, lasErr, srvLis, acc, errs,
                 closeCalls, nconn, nreqs, registry, info, connVars>>

\* srv.unix = nil
CloseUnixNil ==
  /\ Running
  /\ closePc = "unixNil"
  /\ closePc' = "clients"
  /\ srvLis' = [srvLis EXCEPT !["unix"] = FALSE]
  /\ UNCHANGED <<config, env, fsys, commands, direct, lasPc, lasErr, lis, acc, errs,
                 closeCalls, closeRes, nconn, nreqs, registry, info, connVars>>

\* Close returning without srv.clients.Clear()
CloseClients_NoClear ==
  /\ Running
  /\ closePc = "clients"
  /\ closePc' = "idle"
  /\ closeCalls' = closeCalls + 1
  /\ UNCHANGED <<srvVars, closeRes, nconn, nreqs, registry, info, connVars>>

\* if e := srv.clients.Clear(); err != nil { err = e }; return
CloseClients ==
  /\ Running
  /\ closePc = "clients"
  /\ closePc' = "idle"
  /\ closeCalls' = closeCalls + 1
  /\ open' = CloseAll(registry, open)
  /\ registry' = {}
  /\ \E e \in ClearResults :
       closeRes' = [closeRes EXCEPT !.err = IF @ # "nil" THEN e ELSE @,
                                    !.clear = e]
  /\ UNCHANGED <<srvVars, nconn, nreqs, info, pc, deadline, client, req, res, err, out, hist>>

(* ------------------------- Server.serveClient -------------------------- *)

\* a reply on the wire: the payload of responder r, written for frame idx
Reply(idx, r) == [idx |-> idx, kind |-> r.kind, body |-> r.body]

\* Responder.WriteTo(conn): the payload reaches the transport when the
\* transport is open and the write does not fail (ok)
WriteTo(o, op, ok, reply) == IF op /\ ok THEN Append(o, reply) ELSE o

\* writeError that never writes
writeError_Dropped(o, op, ok, e, idx) == o
\* writeError without the test for io.EOF
writeError_NoEofTest(o, op, ok, e, idx) ==
  IF op /\ ok THEN Append(o, [idx |-> idx, kind |-> "err", body |-> e.msg]) ELSE o
\* Server.writeError(conn, err): nothing on io.EOF, else the error is written
\* with a new responder, and the result of the write is dropped
writeError(o, op, ok, e, idx) ==
  IF e = EOF THEN o ELSE WriteTo(o, op, ok, Reply(idx, ErrRes(e)))

\* Apply counting the command before the lookup of its name
Apply_CountsFirst(name, cl, inf) ==
  IF name \notin DOMAIN commands
  THEN [res |-> NilRes, err |-> UnknownCommand(name), client |-> cl,
        info |-> onCommand(inf)]
  ELSE LET cmd == commands[name]
           tracked == trackCommand(cl, name)
       IN [res |-> OkRes(cmd.out),
           err |-> cmd.err,
           client |-> [tracked EXCEPT !.quit = @ \/ cmd.quit],
           info |-> onCommand(inf)]

\* Server.Apply(req) for the request name of client cl:
\* the responder and error returned, and the client and statistics after it
Apply(name, cl, inf) ==
  IF name \notin DOMAIN commands
  THEN [res |-> NilRes, err |-> UnknownCommand(name), client |-> cl, info |-> inf]
  ELSE LET cmd == commands[name]
           tracked == trackCommand(cl, name)
       IN [res |-> OkRes(cmd.out),
           err |-> cmd.err,
           client |-> [tracked EXCEPT !.quit = @ \/ cmd.quit],
           info |-> onCommand(inf)]

\* What ParseRequest(buffer) can return on connection c. The reader is a
\* bufio.Reader over the transport: once the transport is closed on this side
\* a read fails, but frames already buffered are still returned.
\* With a deadline set, a read over a transport whose client sends nothing
\* fails with a timeout when the deadline elapses.
ParseRequest(c) ==
  LET avail == IF nreqs < env.budget THEN env.frames
               ELSE {f \in env.frames : f.err # NoErr}
  IN IF open[c]
     THEN avail \cup (IF deadline[c] = "armed" THEN {FrameTimeout} ELSE {})
     ELSE {FrameClosed} \cup (avail \ {FrameEOF})

\* SetDeadline called before the first decode only
SetDeadline_Once(dl, n, op) ==
  IF config.timeout /\ n = 0 THEN [deadline |-> IF op THEN "armed" ELSE dl, arms |-> 1]
  ELSE [deadline |-> dl, arms |-> n]

\* if timeout := srv.config.Timeout; timeout > 0 { client.conn.SetDeadline(...) }
\* for a connection with deadline dl after n calls of SetDeadline, whose
\* transport is open (op) or not: on a closed transport the call fails and
\* sets nothing, and its result is dropped
SetDeadline(dl, n, op) ==
  IF config.timeout THEN [deadline |-> IF op THEN "armed" ELSE dl, arms |-> n + 1]
  ELSE [deadline |-> dl, arms |-> n]

\* a write reaches the client when the transport is open and its deadline,
\* which SetDeadline sets for reads and writes alike, has not elapsed
Writable(c) == open[c] /\ deadline[c] # "expired"

\* srv.clients.Put(client); defer srv.clients.Close(client.id)
ServeRegister(c) ==
  /\ Running
  /\ pc[c] = "new"
  /\ registry' = Put(registry, c)
  /\ pc' = [pc EXCEPT ![c] = "registered"]
  /\ UNCHANGED <<srvVars, closeVars, nconn, nreqs, info, open, deadline, client, req, res,
                 err, out, hist>>

\* ServeConnect without srv.info.onConnect()
ServeConnect_NoCount(c) ==
  /\ Running
  /\ pc[c] = "registered"
  /\ pc' = [pc EXCEPT ![c] = "decode"]
  /\ UNCHANGED <<srvVars, closeVars, nconn, nreqs, registry, info, open, deadline, client,
                 req, res, err, out, hist>>

\* srv.info.onConnect(), and the keep-alive settings of the connection
ServeConnect(c) ==
  /\ Running
  /\ pc[c] = "registered"
  /\ info' = onConnect(info)
  /\ pc' = [pc EXCEPT ![c] = "decode"]
  /\ UNCHANGED <<srvVars, closeVars, nconn, nreqs, registry, open, deadline, client, req,
                 res, err, out, hist>>

\* if timeout := srv.config.Timeout; timeout > 0 { client.conn.SetDeadline(...) }:
\* the deadline is set if the transport is open, and the read of ParseRequest
\* is pending
ServeSetDeadline(c) ==
  /\ Running
  /\ pc[c] = "decode"
  /\ config.timeout
  /\ LET armed == SetDeadline(deadline[c], hist[c].arms, open[c])
     IN /\ deadline' = [deadline EXCEPT ![c] = armed.deadline]
        /\ hist' = [hist EXCEPT ![c].arms = armed.arms]
  /\ pc' = [pc EXCEPT ![c] = "read"]
  /\ UNCHANGED <<srvVars, closeVars, nconn, nreqs, registry, info, open, client, req, res,
                 err, out>>

\* req, err := ParseRequest(buffer) returns; if err == nil { req.client = client;
\* res, err := srv.Apply(req) }  (no transport I/O between the two calls).
\* With no timeout configured nothing happens between the top of the loop and
\* the read.
ServeDecode(c) ==
  /\ Running
  /\ pc[c] = (IF config.timeout THEN "read" ELSE "decode")
  /\ \E r \in ParseRequest(c) :
       LET idx == hist[c].decodes + 1
           a == Apply(r.name, client[c], info)
       IN IF r.err # NoErr
          THEN /\ pc' = [pc EXCEPT ![c] = "decodeErr"]
               /\ err' = [err EXCEPT ![c] = r.err]
               /\ hist' = [hist EXCEPT ![c].decodes = idx]
               /\ deadline' = [deadline EXCEPT ![c] = IF r = FrameTimeout THEN "expired"
                                                      ELSE @]
               /\ UNCHANGED <<nreqs, req, res, client, info>>
          ELSE /\ pc' = [pc EXCEPT ![c] = IF a.err # NoErr THEN "applyErr" ELSE "write"]
               /\ req' = [req EXCEPT ![c] = [idx |-> idx, name |-> r.name]]
               /\ nreqs' = nreqs + 1
               /\ res' = [res EXCEPT ![c] = a.res]
               /\ err' = [err EXCEPT ![c] = a.err]
               /\ client' = [client EXCEPT ![c] = a.client]
               /\ info' = a.info
               /\ UNCHANGED deadline
               /\ hist' = [hist EXCEPT ![c].decodes = idx,
                                       ![c].misses = IF r.name \in RegisteredNames
                                                     THEN @ ELSE @ + 1,
                                       ![c].quitBy = IF a.client.quit /\ ~client[c].quit
                                                     THEN idx ELSE @]
  /\ UNCHANGED <<srvVars, closeVars, nconn, registry, open, out>>

\* if err != nil { srv.writeError(client.conn, err); return }   (after ParseRequest)
ServeDecodeErr(c) ==
  /\ Running
  /\ pc[c] = "decodeErr"
  /\ \E ok \in BOOLEAN :
       /\ out' = [out EXCEPT ![c] = writeError(@, Writable(c), ok, err[c], hist[c].decodes)]
       /\ hist' = [hist EXCEPT ![c].failed = IF err[c] # EOF /\ ~(Writable(c) /\ ok)
                                                     THEN @ \cup {hist[c].decodes} ELSE @,
                               ![c].why = IF err[c] = EOF THEN "eof" ELSE "decode",
                               ![c].atExit = hist[c].decodes]
  /\ pc' = [pc EXCEPT ![c] = "return"]
  /\ UNCHANGED <<srvVars, closeVars, nconn, nreqs, registry, info, open, deadline, client, req, res, err>>

\* ServeApplyErr testing the quit flag after the error reply
ServeApplyErr_QuitTest(c) ==
  /\ Running
  /\ pc[c] = "applyErr"
  /\ \E ok \in BOOLEAN :
       LET goesOn == IsClientError(err[c]) /\ ~client[c].quit
       IN /\ out' = [out EXCEPT ![c] = writeError(@, Writable(c), ok, err[c], req[c].idx)]
          /\ hist' = [hist EXCEPT ![c].failed = IF Writable(c) /\ ok THEN @
                                                ELSE @ \cup {req[c].idx},
                                  ![c].why = IF goesOn THEN @
                                             ELSE IF client[c].quit THEN "quit" ELSE "fatal",
                                  ![c].atExit = IF goesOn THEN @ ELSE hist[c].decodes]
          /\ pc' = [pc EXCEPT ![c] = IF goesOn THEN "decode" ELSE "return"]
  /\ UNCHANGED <<srvVars, closeVars, nconn, nreqs, registry, info, open, deadline, client, req, res, err>>

\* if err != nil { srv.writeError(client.conn, err);
\*                 if _, ok := err.(ClientError); ok { continue }; return }
ServeApplyErr(c) ==
  /\ Running
  /\ pc[c] = "applyErr"
  /\ \E ok \in BOOLEAN :
       /\ out' = [out EXCEPT ![c] = writeError(@, Writable(c), ok, err[c], req[c].idx)]
       /\ hist' = [hist EXCEPT ![c].failed = IF Writable(c) /\ ok THEN @
                                                     ELSE @ \cup {req[c].idx},
                               ![c].why = IF IsClientError(err[c]) THEN @ ELSE "fatal",
                               ![c].atExit = IF IsClientError(err[c]) THEN @
                                             ELSE hist[c].decodes]
  /\ pc' = [pc EXCEPT ![c] = IF IsClientError(err[c]) THEN "decode" ELSE "return"]
  /\ UNCHANGED <<srvVars, closeVars, nconn, nreqs, registry, info, open, deadline, client, req, res, err>>

\* if _, err = res.WriteTo(client.conn); err != nil { return }
\* else if client.quit { return }
ServeWrite(c) ==
  /\ Running
  /\ pc[c] = "write"
  /\ \E ok \in BOOLEAN :
       LET written == Writable(c) /\ ok
           returns == ~written \/ client[c].quit
       IN /\ out' = [out EXCEPT ![c] = WriteTo(@, Writable(c), ok, Reply(req[c].idx, res[c]))]
          /\ hist' = [hist EXCEPT ![c].failed = IF written THEN @
                                                        ELSE @ \cup {req[c].idx},
                                  ![c].why = IF ~written THEN "write"
                                             ELSE IF client[c].quit THEN "quit" ELSE @,
                                  ![c].atExit = IF returns THEN hist[c].decodes ELSE @]
          /\ pc' = [pc EXCEPT ![c] = IF returns THEN "return" ELSE "decode"]
  /\ UNCHANGED <<srvVars, closeVars, nconn, nreqs, registry, info, open, deadline, client, req, res, err>>

\* ServeReturn without the deferred srv.clients.Close(client.id)
ServeReturn_NoClose(c) ==
  /\ Running
  /\ pc[c] = "return"
  /\ pc' = [pc EXCEPT ![c] = "done"]
  /\ UNCHANGED <<srvVars, closeVars, nconn, nreqs, registry, info, open, deadline, client,
                 req, res, err, out, hist>>

\* serveClient returns: the deferred srv.clients.Close(client.id)
ServeReturn(c) ==
  /\ Running
  /\ pc[c] = "return"
  /\ registry' = Remove(registry, c)
  /\ open' = CloseConn(registry, open, c)
  /\ pc' = [pc EXCEPT ![c] = "done"]
  /\ UNCHANGED <<srvVars, closeVars, nconn, nreqs, info, deadline, client, req, res, err, out, hist>>

(* --------------------------- specification ----------------------------- *)

Next ==
  \/ LasTcp
  \/ LasTcpGo
  \/ LasUnix
  \/ LasUnixGo
  \/ LasWait
  \/ \E l \in Listeners : ServePanic(l)
  \/ \E l \in Listeners : ServeAccept(l)
  \/ \E l \in Listeners : ServeAcceptErr(l)
  \/ \E l \in Listeners : ServeDeferClose(l)
  \/ CloseCall
  \/ CloseTcp
  \/ CloseTcpNil
  \/ CloseUnix
  \/ CloseUnixNil
  \/ CloseClients
  \/ \E c \in Conns : ServeRegister(c)
  \/ \E c \in Conns : ServeConnect(c)
  \/ \E c \in Conns : ServeDecode(c)
  \/ \E c \in Conns : ServeDecodeErr(c)
  \/ \E c \in Conns : ServeApplyErr(c)
  \/ \E c \in Conns : ServeWrite(c)
  \/ \E c \in Conns : ServeReturn(c)

Spec == Init /\ [][Next]_vars

(* The serve loop of one connection: the server is listening, connection 1   *)
(* has just been accepted (a state Spec reaches by LasTcp, LasUnix,          *)
(* ServeAccept), its client sends any frames, and Close runs concurrently.   *)
(* With an idle timeout configured the client pings, sends an unregistered   *)
(* name, hangs up, or stays silent.                                          *)
InitServe ==
  /\ \E t \in BOOLEAN :
       /\ config = [addr |-> TRUE, socket |-> TRUE, timeout |-> t]
       /\ env = [frames |-> IF t THEN PlainFrames ELSE AllFrames,
                 budget |-> MaxReqs, faults |-> FALSE, clients |-> MaxConns,
                 closes |-> MaxCloses, watch |-> {}]
  /\ fsys = [Host("free", "absent", TRUE) EXCEPT !.sock = "socket"]
  /\ commands = Registered
  /\ direct = NoDirect
  /\ closeRes = NoCloseRes
  /\ deadline = [c \in Conns |-> "none"]
  /\ lasPc = "wait"
  /\ lasErr = "none"
  /\ srvLis = [l \in Listeners |-> TRUE]
  /\ lis = [l \in Listeners |-> "open"]
  /\ acc = [l \in Listeners |-> "accept"]
  /\ errs = <<>>
  /\ closePc = "idle"
  /\ closeCalls = 0
  /\ nconn = 1
  /\ nreqs = 0
  /\ registry = {}
  /\ info = [connections |-> 0, commands |-> 0]
  /\ pc = [c \in Conns |-> IF c = 1 THEN "new" ELSE "free"]
  /\ open = [c \in Conns |-> c = 1]
  /\ client = [c \in Conns |-> NewClient]
  /\ req = [c \in Conns |-> NoReq]
  /\ res = [c \in Conns |-> NilRes]
  /\ err = [c \in Conns |-> NoErr]
  /\ out = [c \in Conns |-> <<>>]
  /\ hist = [c \in Conns |-> NoHist]

NextServe ==
  \/ CloseCall
  \/ CloseTcp
  \/ CloseTcpNil
  \/ CloseUnix
  \/ CloseUnixNil
  \/ CloseClients
  \/ \E c \in Conns : ServeRegister(c)
  \/ \E c \in Conns : ServeConnect(c)
  \/ \E c \in Conns : ServeSetDeadline(c)
  \/ \E c \in Conns : ServeDecode(c)
  \/ \E c \in Conns : ServeDecodeErr(c)
  \/ \E c \in Conns : ServeApplyErr(c)
  \/ \E c \in Conns : ServeWrite(c)
  \/ \E c \in Conns : ServeReturn(c)

SpecServe == InitServe /\ [][NextServe]_vars

(* The life of the sessions: the whole server with one transport configured, *)
(* either one, and clients that connect and hang up without sending a        *)
(* request.                                                                  *)
InitClose ==
  /\ \E a \in BOOLEAN : config = [addr |-> a, socket |-> ~a, timeout |-> FALSE]
  /\ fsys = Host("free", "absent", TRUE)
  /\ commands = Registered
  /\ direct = NoDirect
  /\ closeRes = NoCloseRes
  /\ deadline = [c \in Conns |-> "none"]
  /\ env = [frames |-> {FrameEOF}, budget |-> 0, faults |-> FALSE,
           clients |-> MaxConns, closes |-> MaxCloses, watch |-> {}]
  /\ lasPc = "tcp"
  /\ lasErr = "none"
  /\ srvLis = [l \in Listeners |-> FALSE]
  /\ lis = [l \in Listeners |-> "none"]
  /\ acc = [l \in Listeners |-> "idle"]
  /\ errs = <<>>
  /\ closePc = "idle"
  /\ closeCalls = 0
  /\ nconn = 0
  /\ nreqs = 0
  /\ registry = {}
  /\ info = [connections |-> 0, commands |-> 0]
  /\ pc = [c \in Conns |-> "free"]
  /\ open = [c \in Conns |-> FALSE]
  /\ client = [c \in Conns |-> NewClient]
  /\ req = [c \in Conns |-> NoReq]
  /\ res = [c \in Conns |-> NilRes]
  /\ err = [c \in Conns |-> NoErr]
  /\ out = [c \in Conns |-> <<>>]
  /\ hist = [c \in Conns |-> NoHist]

NextClose ==
  \/ LasTcp
  \/ LasTcpGo
  \/ LasUnix
  \/ LasUnixGo
  \/ LasWait
  \/ \E l \in Listeners : ServePanic(l)
  \/ \E l \in Listeners : ServeAccept(l)
  \/ \E l \in Listeners : ServeAcceptErr(l)
  \/ \E l \in Listeners : ServeDeferClose(l)
  \/ CloseCall
  \/ CloseTcp
  \/ CloseTcpNil
  \/ CloseUnix
  \/ CloseUnixNil
  \/ CloseClients
  \/ \E c \in Conns : ServeRegister(c)
  \/ \E c \in Conns : ServeConnect(c)
  \/ \E c \in Conns : ServeDecode(c)
  \/ \E c \in Conns : ServeDecodeErr(c)
  \/ \E c \in Conns : ServeReturn(c)

SpecClose == InitClose /\ [][NextClose]_vars

\* The start of the server on every host and configuration: the transports
\* configured, what occupies the port and the socket path, accept failures
\* and failures of Close. The clients only connect and hang up.
InitStart ==
  /\ \E a \in BOOLEAN, u \in BOOLEAN :
       config = [addr |-> a, socket |-> u, timeout |-> FALSE]
  /\ fsys \in Hosts(config)
  /\ commands = Registered
  /\ direct = NoDirect
  /\ closeRes = NoCloseRes
  /\ deadline = [c \in Conns |-> "none"]
  /\ env = [frames |-> {FrameEOF}, budget |-> 0, faults |-> TRUE,
           clients |-> StartConns, closes |-> StartCloses, watch |-> {"afterRet"}]
  /\ lasPc = "tcp"
  /\ lasErr = "none"
  /\ srvLis = [l \in Listeners |-> FALSE]
  /\ lis = [l \in Listeners |-> "none"]
  /\ acc = [l \in Listeners |-> "idle"]
  /\ errs = <<>>
  /\ closePc = "idle"
  /\ closeCalls = 0
  /\ nconn = 0
  /\ nreqs = 0
  /\ registry = {}
  /\ info = [connections |-> 0, commands |-> 0]
  /\ pc = [c \in Conns |-> "free"]
  /\ open = [c \in Conns |-> FALSE]
  /\ client = [c \in Conns |-> NewClient]
  /\ req = [c \in Conns |-> NoReq]
  /\ res = [c \in Conns |-> NilRes]
  /\ err = [c \in Conns |-> NoErr]
  /\ out = [c \in Conns |-> <<>>]
  /\ hist = [c \in Conns |-> NoHist]

NextStart ==
  \/ LasTcp
  \/ LasTcpGo
  \/ LasUnix
  \/ LasUnixGo
  \/ LasWait
  \/ \E l \in Listeners : ServePanic(l)
  \/ \E l \in Listeners : ServeAccept(l)
  \/ \E l \in Listeners : ServeAcceptErr(l)
  \/ \E l \in Listeners : ServeDeferClose(l)
  \/ \E l \in Listeners : ServeAcceptFail(l)
  \/ CloseCall
  \/ CloseTcp
  \/ CloseTcpNil
  \/ CloseUnix
  \/ CloseUnixNil
  \/ CloseClients
  \/ \E c \in Conns : ServeRegister(c)
  \/ \E c \in Conns : ServeConnect(c)
  \/ \E c \in Conns : ServeDecode(c)
  \/ \E c \in Conns : ServeDecodeErr(c)
  \/ \E c \in Conns : ServeReturn(c)

SpecStart == InitStart /\ [][NextStart]_vars

\* The accept loops of a server whose listeners could all be opened, on
\* every configuration that has a listener.
InitLoops ==
  /\ \E a \in BOOLEAN, u \in BOOLEAN :
       /\ a \/ u
       /\ config = [addr |-> a, socket |-> u, timeout |-> FALSE]
  /\ fsys = Host("free", "absent", TRUE)
  /\ commands = Registered
  /\ direct = NoDirect
  /\ closeRes = NoCloseRes
  /\ deadline = [c \in Conns |-> "none"]
  /\ env = [frames |-> {FrameEOF}, budget |-> 0, faults |-> TRUE,
           clients |-> StartConns, closes |-> StartCloses, watch |-> {}]
  /\ lasPc = "tcp"
  /\ lasErr = "none"
  /\ srvLis = [l \in Listeners |-> FALSE]
  /\ lis = [l \in Listeners |-> "none"]
  /\ acc = [l \in Listeners |-> "idle"]
  /\ errs = <<>>
  /\ closePc = "idle"
  /\ closeCalls = 0
  /\ nconn = 0
  /\ nreqs = 0
  /\ registry = {}
  /\ info = [connections |-> 0, commands |-> 0]
  /\ pc = [c \in Conns |-> "free"]
  /\ open = [c \in Conns |-> FALSE]
  /\ client = [c \in Conns |-> NewClient]
  /\ req = [c \in Conns |-> NoReq]
  /\ res = [c \in Conns |-> NilRes]
  /\ err = [c \in Conns |-> NoErr]
  /\ out = [c \in Conns |-> <<>>]
  /\ hist = [c \in Conns |-> NoHist]

\* ListenAndServe, the accept loops and Close. The serveClient goroutines that
\* the loops start are not followed: they touch neither a listener nor errs.
NextLoops ==
  \/ LasTcp
  \/ LasTcpGo
  \/ LasUnix
  \/ LasUnixGo
  \/ LasWait
  \/ \E l \in Listeners : ServePanic(l)
  \/ \E l \in Listeners : ServeAccept(l)
  \/ \E l \in Listeners : ServeAcceptErr(l)
  \/ \E l \in Listeners : ServeDeferClose(l)
  \/ \E l \in Listeners : ServeAcceptFail(l)
  \/ CloseCall
  \/ CloseTcp
  \/ CloseTcpNil
  \/ CloseUnix
  \/ CloseUnixNil
  \/ CloseClients

\* An accept loop is a goroutine of its own: when Accept has failed and the
\* send to errs can complete, it does, and then it returns.
SpecLoops ==
  /\ InitLoops
  /\ [][NextLoops]_vars
  /\ \A l \in Listeners : WF_vars(ServeAcceptErr(l)) /\ WF_vars(ServeDeferClose(l))

\* srv.Handle(name, handler), called by the application before it dispatches
HandleCall ==
  /\ lasPc = "tcp"
  /\ direct = NoDirect
  /\ \E name \in HandleNames, handler \in HandleHandlers :
       commands' = Handle(commands, name, handler)
  /\ UNCHANGED <<config, env, fsys, direct, lasPc, lasErr, srvLis, lis, acc, errs, closeVars,
                 nconn, nreqs, registry, info, connVars>>

\* srv.Apply(&Request{Name: name}) called by the application: req.client is nil
ApplyCall ==
  /\ lasPc = "tcp"
  /\ direct.calls < MaxApplies
  /\ \E name \in ApplyNames :
       LET a == Apply(name, NewClient, info)
       IN /\ direct' = [name |-> name, res |-> a.res, err |-> a.err,
                        calls |-> direct.calls + 1]
          /\ info' = a.info
  /\ UNCHANGED <<config, env, fsys, commands, lasPc, lasErr, srvLis, lis, acc, errs, closeVars,
                 nconn, nreqs, registry, connVars>>

\* A new server whose application registers handlers and then dispatches
\* requests itself, with no listener started
InitTable ==
  /\ config = [addr |-> FALSE, socket |-> FALSE, timeout |-> FALSE]
  /\ fsys = Host("free", "absent", TRUE)
  /\ commands = NoCommands
  /\ direct = NoDirect
  /\ closeRes = NoCloseRes
  /\ deadline = [c \in Conns |-> "none"]
  /\ env = [frames |-> {}, budget |-> 0, faults |-> FALSE, clients |-> 0,
           closes |-> 0, watch |-> {}]
  /\ lasPc = "tcp"
  /\ lasErr = "none"
  /\ srvLis = [l \in Listeners |-> FALSE]
  /\ lis = [l \in Listeners |-> "none"]
  /\ acc = [l \in Listeners |-> "idle"]
  /\ errs = <<>>
  /\ closePc = "idle"
  /\ closeCalls = 0
  /\ nconn = 0
  /\ nreqs = 0
  /\ registry = {}
  /\ info = [connections |-> 0, commands |-> 0]
  /\ pc = [c \in Conns |-> "free"]
  /\ open = [c \in Conns |-> FALSE]
  /\ client = [c \in Conns |-> NewClient]
  /\ req = [c \in Conns |-> NoReq]
  /\ res = [c \in Conns |-> NilRes]
  /\ err = [c \in Conns |-> NoErr]
  /\ out = [c \in Conns |-> <<>>]
  /\ hist = [c \in Conns |-> NoHist]

NextTable ==
  \/ HandleCall
  \/ ApplyCall

SpecTable == InitTable /\ [][NextTable]_vars

(* ------------------------------ properties ----------------------------- *)

\* the positions in out[c] of the replies written for frame k
RepliesTo(c, k) == {i \in 1..Len(out[c]) : out[c][i].idx = k}
\* the serve loop of c has decided to return
Returned(c) == pc[c] \in {"return", "done"}
\* the error reply serveClient owes for error e on frame k
ErrorReply(k, e) == [idx |-> k, kind |-> "err", body |-> e.msg]

\* C1: on one connection the replies are written in request order, and, as
\* long as no write failed, whenever the loop is about to decode request i+1
\* the replies to requests 1..i are all on the transport, one each (and
\* while request i is being served, exactly the replies to 1..i-1 are).
C1_PipelinedReplies ==
  \A c \in Conns :
    /\ \A i, j \in 1..Len(out[c]) : i < j => out[c][i].idx < out[c][j].idx
    /\ hist[c].failed = {} =>
         /\ pc[c] = "decode" =>
              /\ Len(out[c]) = hist[c].decodes
              /\ \A i \in 1..Len(out[c]) : out[c][i].idx = i
         /\ pc[c] \in {"applyErr", "write"} =>
              /\ Len(out[c]) + 1 = hist[c].decodes
              /\ \A i \in 1..Len(out[c]) : out[c][i].idx = i

\* three pipelined pings got three replies in order, and the loop goes on
C1_Witness ==
  /\ pc[1] = "decode"
  /\ hist[1].decodes = 3
  /\ out[1] = <<[idx |-> 1, kind |-> "ok", body |-> "PONG"],
                [idx |-> 2, kind |-> "ok", body |-> "PONG"],
                [idx |-> 3, kind |-> "ok", body |-> "PONG"]>>
  /\ open[1]

\* C4: a request with an unregistered name never reaches the success path;
\* its error is a ClientError "unknown command"; the step that handles it
\* writes exactly one error reply for it (none only when that write fails),
\* leaves the transport and the registry as they are, and goes back to decode.
C4_UnknownCommand ==
  [][\A c \in Conns :
       /\ (pc'[c] \in {"applyErr", "write"} /\ req'[c].name \notin RegisteredNames) =>
            /\ pc'[c] = "applyErr"
            /\ err'[c] = [class |-> "client", msg |-> "unknown command"]
       /\ (pc[c] = "applyErr" /\ req[c].name \notin RegisteredNames /\ pc'[c] # "applyErr") =>
            /\ pc'[c] = "decode"
            /\ open'[c] = open[c]
            /\ registry' = registry
            /\ hist'[c].why = ""
            /\ IF req[c].idx \in hist'[c].failed
               THEN out'[c] = out[c]
               ELSE out'[c] = Append(out[c], ErrorReply(req[c].idx, err[c]))]_vars

\* "nope" then "ping": one error reply, one success reply, connection open
C4_Witness ==
  /\ pc[1] = "decode"
  /\ out[1] = <<[idx |-> 1, kind |-> "err", body |-> "unknown command"],
                [idx |-> 2, kind |-> "ok", body |-> "PONG"]>>
  /\ open[1]
  /\ 1 \in registry

\* C5: after a decode failure the serve loop has returned and ParseRequest was
\* not called again; on end-of-stream nothing was written for that frame; on
\* any other decode failure exactly one error reply was written for it (none
\* only when that write failed); and the transport is closed once the loop is done.
C5_DecodeFailure ==
  \A c \in Conns :
    hist[c].why \in {"eof", "decode"} =>
      /\ Returned(c)
      /\ hist[c].decodes = hist[c].atExit
      /\ pc[c] = "done" => ~open[c]
      /\ IF hist[c].why = "eof" \/ hist[c].decodes \in hist[c].failed
         THEN RepliesTo(c, hist[c].decodes) = {}
         ELSE /\ RepliesTo(c, hist[c].decodes) = {Len(out[c])}
              /\ out[c][Len(out[c])] = ErrorReply(hist[c].decodes, err[c])

\* a malformed frame after one ping: the error reply is written, then the
\* transport is closed
C5_Witness ==
  /\ pc[1] = "done"
  /\ hist[1].why = "decode"
  /\ out[1] = <<[idx |-> 1, kind |-> "ok", body |-> "PONG"],
                [idx |-> 2, kind |-> "err", body |-> "invalid request"]>>
  /\ ~open[1]
  /\ closeCalls = 0

\* C6 (as claimed): when the serve loop returns because of the quit flag, the
\* reply of the request whose handler set the flag was written to the
\* transport; and once a handler has set the flag, no later request is
\* decoded: the last request decoded is the one that set it.
C6_QuitAfterReply ==
  \A c \in Conns :
    /\ hist[c].why = "quit" => RepliesTo(c, hist[c].quitBy) # {}
    /\ hist[c].quitBy > 0 => req[c].idx = hist[c].quitBy

\* C7: once serveClient has returned, for whatever reason, its session is
\* not in the registry and its transport is closed.
C7_SessionDestroyed ==
  \A c \in Conns :
    pc[c] = "done" =>
      /\ c \notin registry
      /\ ~open[c]
      /\ hist[c].why \in {"eof", "decode", "fatal", "write", "quit"}

\* a fatal handler error ended the loop of a registered session; no Close ran
C7_Witness ==
  /\ pc[1] = "done"
  /\ hist[1].why = "fatal"
  /\ closeCalls = 0
  /\ closePc = "idle"
  /\ info.connections = 1
  /\ ~open[1]

\* C8: the error a handler returned decides between continue and close. A
\* ClientError: the step writes exactly one error reply (none only when the
\* write fails), goes back to decode and leaves the transport alone. Any
\* other error: the step writes at most one error reply and the loop returns;
\* from then on no frame is decoded.
C8_HandlerErrors ==
  [][\A c \in Conns :
       /\ (pc[c] = "applyErr" /\ req[c].name \in RegisteredNames /\ pc'[c] # "applyErr") =>
            /\ err[c] = commands[req[c].name].err
            /\ IF req[c].idx \in hist'[c].failed
               THEN out'[c] = out[c]
               ELSE out'[c] = Append(out[c], ErrorReply(req[c].idx, err[c]))
            /\ IF err[c].class = "client"
               THEN /\ pc'[c] = "decode"
                    /\ open'[c] = open[c]
                    /\ hist'[c].why = ""
               ELSE /\ pc'[c] = "return"
                    /\ hist'[c].why = "fatal"
       /\ hist[c].why = "fatal" =>
            /\ Returned(c)
            /\ pc'[c] \in {"return", "done"}
            /\ hist'[c].decodes = hist[c].atExit]_vars

\* a ClientError then a plain error: two error replies, then the loop is over
C8_Witness ==
  /\ pc[1] = "done"
  /\ hist[1].why = "fatal"
  /\ out[1] = <<[idx |-> 1, kind |-> "err", body |-> "bad argument"],
                [idx |-> 2, kind |-> "err", body |-> "backend down"]>>
  /\ hist[1].decodes = 2

\* C9 (as claimed): once the write of a reply has failed, for a success
\* reply or an error reply, the serve loop decodes no further frame: the
\* frame whose reply failed is the last one ParseRequest returned.
C9_WriteErrorsFatal ==
  \A c \in Conns : \A k \in hist[c].failed : hist[c].decodes = k

\* the requests Apply was called with, and those among them whose name is
\* registered nowhere, over all connections
RECURSIVE SumMisses(_)
SumMisses(n) == IF n = 0 THEN 0 ELSE hist[n].misses + SumMisses(n - 1)

\* C10 (as claimed): the commands counter equals the number of Apply calls.
C10_CountsEveryApply == info.commands = nreqs

\* C10 (amended): the commands counter grows by one per Apply call whose name
\* lookup succeeds and not at all for a call whose lookup fails: it equals the
\* number of Apply calls minus those with an unregistered name.
C10_CountsFoundCommands == info.commands + SumMisses(MaxConns) = nreqs

\* three Apply calls, one of them for an unregistered name: the counter is 2
C10_Witness ==
  /\ nreqs = 3
  /\ hist[1].misses = 1
  /\ info.commands = 2

\* C2 (as claimed): once Close has returned, the accept loops have ended and
\* every spawned serveClient has registered, every connection accepted while
\* that Close was running has its transport closed.
C2_AcceptedDuringCloseIsClosed ==
  (/\ closeCalls >= 1
   /\ closePc = "idle"
   /\ \A l \in Listeners : acc[l] = "done"
   /\ \A c \in Conns : pc[c] # "new")
  => \A c \in Conns : hist[c].inClose => ~open[c]

\* C3: the last step of Close closes every registered transport and leaves
\* the registry empty, and the steps of Close for a listener leave that
\* listener closed (the first) and its field nil (the second, or the first
\* when it found the field nil); in a call of Close after the first, a
\* step changes no listener and no listener field when no listener has been
\* set up since the first call cleared the fields, and changes neither the
\* registry nor a transport when no session has been registered since the
\* first call's sweep.
C3_CloseSweepsAndRepeats ==
  [][/\ (closePc = "clients" /\ closePc' = "idle") =>
          /\ registry' = {}
          /\ \A c \in registry : ~open'[c]
     /\ \A l \in Listeners :
          /\ (closePc = l /\ closePc' # l) =>
               /\ lis'[l] # "open"
               /\ closePc' = l \o "Nil" \/ ~srvLis'[l]
          /\ (closePc = l \o "Nil" /\ closePc' # closePc) =>
               (~srvLis'[l] /\ lis'[l] # "open")
     /\ (closeCalls >= 1 /\ closePc' # closePc) =>
          /\ (\A l \in Listeners : ~srvLis[l]) => (lis' = lis /\ srvLis' = srvLis)
          /\ registry = {} => (registry' = registry /\ open' = open)]_vars

\* Close closed the unix listener and swept two registered open sessions
\* (their serve loops are still in the decode step), and a second call of
\* Close has returned
C3_Witness ==
  /\ closeCalls = 2
  /\ closePc = "idle"
  /\ registry = {}
  /\ \A c \in Conns : pc[c] = "decode" /\ ~open[c]
  /\ lis["unix"] = "closed"
  /\ ~srvLis["unix"]
  /\ fsys.sock = "absent"

\* the sessions that were registered and are in the registry no more
Deregistered == {c \in Conns : pc[c] \notin {"free", "new"} /\ c \notin registry}

\* the serve loops that have not finished their registration (Put, onConnect)
Registering == {c \in Conns : pc[c] \in {"new", "registered"}}

\* C11: the registration of a serve loop adds one to the live count (the size
\* of the registry) in its first step and one to the connections counter in
\* its second; the deregistration of a registered session takes one from the
\* live count and leaves the counter; the counter never decreases; and once
\* every serve loop is past its registration, the counter is the number of
\* accepted connections and the live count is accepted minus deregistered.
C11_ConnectionCounts ==
  [][/\ \A c \in Conns :
          /\ (pc[c] = "new" /\ pc'[c] # "new") =>
               /\ Cardinality(registry') = Cardinality(registry) + 1
               /\ info'.connections = info.connections
          /\ (pc[c] = "registered" /\ pc'[c] # "registered") =>
               /\ info'.connections = info.connections + 1
               /\ registry' = registry
          /\ (pc[c] = "return" /\ pc'[c] # "return" /\ c \in registry) =>
               /\ Cardinality(registry') + 1 = Cardinality(registry)
               /\ info'.connections = info.connections
     /\ info'.connections >= info.connections
     /\ Registering' = {} =>
          /\ info'.connections = nconn'
          /\ Cardinality(registry') + Cardinality(Deregistered') = nconn']_vars

\* two connections accepted, one has hung up: counter 2, one live session
C11_Witness ==
  /\ nconn = 2
  /\ info.connections = 2
  /\ Cardinality(registry) = 1
  /\ pc[1] = "done"
  /\ pc[2] = "decode"
  /\ closeCalls = 0
  /\ closePc = "idle"

\* C12 (as claimed): what is written for a request is what its handler
\* accumulated in the responder, whatever error the handler returned.
C12_WritesAccumulated ==
  \A c \in Conns :
    \A i \in RepliesTo(c, req[c].idx) :
      (req[c].idx > 0 /\ res[c].kind = "ok") =>
        out[c][i] = [idx |-> req[c].idx, kind |-> "ok", body |-> res[c].body]

\* C19: a ClientError from a handler that has set the quit flag is answered
\* by its error reply and the loop goes back to decode with the transport
\* and the flag as they were; the loop returns because of the flag only in
\* the step that has just written a success reply, and with the flag set the
\* step that writes a success reply does return.
C19_QuitFlagAfterClientError ==
  [][\A c \in Conns :
       /\ (pc[c] = "applyErr" /\ err[c].class = "client" /\ client[c].quit
           /\ pc'[c] # "applyErr") =>
            /\ pc'[c] = "decode"
            /\ open'[c] = open[c]
            /\ client'[c].quit
            /\ hist'[c].why = ""
            /\ IF req[c].idx \in hist'[c].failed
               THEN out'[c] = out[c]
               ELSE out'[c] = Append(out[c], ErrorReply(req[c].idx, err[c]))
       /\ (hist[c].why # "quit" /\ hist'[c].why = "quit") =>
            /\ pc[c] = "write"
            /\ pc'[c] = "return"
            /\ out'[c] = Append(out[c], [idx |-> req[c].idx, kind |-> "ok",
                                         body |-> res[c].body])
       /\ (pc[c] = "write" /\ client[c].quit /\ Len(out'[c]) > Len(out[c])) =>
            /\ pc'[c] = "return"
            /\ hist'[c].why = "quit"]_vars

\* "qerr" then "ping": the error reply, then the reply to ping, and only
\* then the loop returns because of the flag "qerr" had set
C19_Witness ==
  /\ pc[1] = "done"
  /\ hist[1].why = "quit"
  /\ hist[1].quitBy = 1
  /\ out[1] = <<[idx |-> 1, kind |-> "err", body |-> "bye"],
                [idx |-> 2, kind |-> "ok", body |-> "PONG"]>>
  /\ closeCalls = 0

\* C14: with an idle timeout configured SetDeadline has been called once for
\* every decode attempt, the pending one included (and never without a
\* timeout); while a read is pending on a transport that is open the deadline
\* is set (on a transport that Close has closed the call sets nothing); when
\* the deadline of a connection has elapsed in a decode, the serve loop is on
\* its way out, no reply was written for that decode, and once the loop has
\* returned the transport is closed and the session is out of the registry.
C14_IdleTimeout ==
  \A c \in Conns :
    /\ hist[c].arms = (IF ~config.timeout THEN 0
                       ELSE IF pc[c] = "read" THEN hist[c].decodes + 1
                       ELSE hist[c].decodes)
    /\ (pc[c] = "read" /\ open[c]) => deadline[c] = "armed"
    /\ ~config.timeout => deadline[c] = "none"
    /\ deadline[c] = "expired" =>
         /\ pc[c] \in {"decodeErr", "return", "done"}
         /\ err[c] = ErrTimeout
         /\ RepliesTo(c, hist[c].decodes) = {}
         /\ pc[c] = "done" => (~open[c] /\ c \notin registry)

\* a client that connected and sent nothing: one decode, timed out, nothing
\* written, the connection closed
C14_Witness ==
  /\ config.timeout
  /\ pc[1] = "done"
  /\ deadline[1] = "expired"
  /\ hist[1].decodes = 1
  /\ hist[1].arms = 1
  /\ out[1] = <<>>
  /\ ~open[1]
  /\ closeCalls = 0
  /\ closePc = "idle"

\* C15: ListenAndServe returns from its wait with the error that was
\* reported first, and can do so whenever an error has been reported; the
\* steps in which the accept loop of one listener fails and returns, and the
\* return of ListenAndServe, leave the other listener and its accept loop as
\* they were; an accept loop whose listener is open accepts the next client
\* whatever ListenAndServe has done (all of it while the process runs).
C15_FirstAcceptError ==
  [][/\ (lasPc = "wait" /\ lasPc' = "returned") =>
          /\ errs # <<>>
          /\ lasErr' = errs[1]
          /\ lis' = lis
          /\ acc' = acc
     /\ (Running /\ lasPc = "wait" /\ errs # <<>>) => ENABLED LasWait
     /\ \A l \in Listeners :
          /\ (acc[l] \in {"accept", "closing"} /\ acc'[l] \in {"closing", "done"}
              /\ acc'[l] # acc[l]) =>
               \A m \in Listeners \ {l} : acc'[m] = acc[m] /\ lis'[m] = lis[m]
          /\ (Running /\ acc[l] = "accept" /\ lis[l] = "open" /\ nconn < env.clients) =>
               ENABLED ServeAccept(l)]_vars

\* the TCP accept loop failed, ListenAndServe returned its error, and the
\* unix listener accepted a client afterwards and served it to its end
C15_Witness ==
  /\ lasPc = "returned"
  /\ lasErr = "accept tcp"
  /\ acc = [l \in Listeners |-> IF l = "tcp" THEN "done" ELSE "accept"]
  /\ lis["unix"] = "open"
  /\ hist[1].afterRet
  /\ pc[1] = "done"
  /\ info.connections = 1
  /\ closeCalls = 0
  /\ closePc = "idle"

\* C16 (as claimed): a call of Close returns the error of closing the TCP
\* listener if that failed, else the error of closing the unix listener if
\* that failed, else no error, whatever closing the sessions returned.
C16_FirstListenerCloseError ==
  (closePc = "idle" /\ closeCalls > 0) =>
    closeRes.err = (IF closeRes.tcp # "nil" THEN closeRes.tcp ELSE closeRes.unix)

\* C17 (as claimed): once ListenAndServe is past the set-up of the unix
\* listener, over a stale socket file that can be removed the start has not
\* failed and the accept loop of the unix listener was started; over a
\* regular file or a directory the start has failed, no unix accept loop
\* was started and the occupant is still there.
C17_SocketPathOccupants ==
  (config.socket /\ lasPc \in {"wait", "returned"} /\ lasErr # "listen tcp") =>
    /\ (fsys.sock0 = "socket" /\ fsys.removable) =>
         (lasErr \notin {"listen unix", "remove unix"} /\ acc["unix"] # "idle")
    /\ fsys.sock0 \in {"file", "dir"} =>
         /\ lasErr \in {"listen unix", "remove unix"}
         /\ acc["unix"] = "idle"
         /\ fsys.sock = fsys.sock0

\* C18: while the process runs, an accept loop whose Accept has failed, or
\* can fail, is never kept waiting by the errs channel, read or not; and an
\* accept loop whose listener was closed does end, unless the process ends
\* first.
C18_AcceptLoopsEnd ==
  /\ [](\A l \in Listeners :
          /\ (Running /\ acc[l] = "accept" /\ lis[l] = "closed") =>
               ENABLED ServeAcceptErr(l)
          /\ (Running /\ acc[l] = "accept" /\ lis[l] = "open") =>
               ENABLED ServeAcceptFail(l))
  /\ \A l \in Listeners :
       (acc[l] = "accept" /\ lis[l] = "closed") ~> (acc[l] = "done" \/ ~Running)

\* ListenAndServe returned on the error of the TCP loop and reads errs no
\* more; the unix loop, ended by Close, has left its error in the channel
C18_Witness ==
  /\ lasPc = "returned"
  /\ lasErr = "accept tcp"
  /\ acc = [l \in Listeners |-> "done"]
  /\ errs = <<"accept unix">>
  /\ closeCalls = 1

\* C20: the step of ListenAndServe that fails to set the unix listener up
\* leaves the TCP listener and its accept loop as they are; after it
\* ListenAndServe has returned that error, and the TCP listener stops being
\* open only in the step of a Close call that closes it or in the deferred
\* Close of its accept loop, which has failed; until then the loop accepts
\* the next client; with no transport configured ListenAndServe does not
\* return and no accept loop exists.
C20_SetupFailureLeavesTcp ==
  [][/\ (lasPc = "unix" /\ lasPc' = "returned") =>
          /\ lasErr' \in {"listen unix", "remove unix"}
          /\ lis' = lis
          /\ acc' = acc
          /\ srvLis' = srvLis
     /\ (lasErr \in {"listen unix", "remove unix"} /\ lis["tcp"] = "open"
         /\ lis'["tcp"] # "open") =>
          \/ closePc = "tcp" /\ closePc' = "tcpNil"
          \/ acc["tcp"] = "closing" /\ acc'["tcp"] = "done"
     /\ (lasErr \in {"listen unix", "remove unix"} /\ acc["tcp"] = "accept"
         /\ lis["tcp"] = "open"
         /\ nconn < env.clients) => ENABLED ServeAccept("tcp")
     /\ (~config.addr /\ ~config.socket) =>
          /\ lasPc' # "returned"
          /\ lasErr' = "none"
          /\ errs' = <<>>
          /\ acc' = [l \in Listeners |-> "idle"]]_vars

\* the socket path is a directory: ListenAndServe has returned the error of
\* listenUnix, and the TCP listener, still open, has served a client since
C20_Witness ==
  /\ config.addr /\ config.socket
  /\ lasPc = "returned"
  /\ lasErr = "listen unix"
  /\ lis["tcp"] = "open"
  /\ acc["tcp"] = "accept"
  /\ hist[1].afterRet
  /\ pc[1] = "done"
  /\ closeCalls = 0
  /\ closePc = "idle"

\* C13 (as claimed): a request handed to Apply under any case variant of a
\* registered name is resolved to the handler registered under that name:
\* Apply returns that handler's output and error.
C13_CaseInsensitiveLookup ==
  (direct.calls > 0 /\ ToLower(direct.name) \in DOMAIN commands) =>
    /\ direct.res = OkRes(commands[ToLower(direct.name)].out)
    /\ direct.err = commands[ToLower(direct.name)].err

=============================================================================
